---- MODULE Spec2Model ----
(***************************************************************************)
(* Model of PoDoFo's PdfName (name value, escape codec, lazy UTF-8 cache)  *)
(* and PdfResources (per-category resource dictionaries and the resource   *)
(* identifier allocator).                                                  *)
(*                                                                         *)
(* Strings of the resource table (dictionary keys, type tags) are TLA+     *)
(* strings.  Byte buffers of the name codec are sequences of integers in   *)
(* 0..255.                                                                 *)
(***************************************************************************)
EXTENDS Integers, Sequences, FiniteSets, TLC

VARIABLES
    \* ---- PdfResources ----
    m_dict,             \* the owning /Resources dictionary: key -> value
    m_currResourceIds,  \* one counter per PdfResourceType (index type - 1 in C++)
    last,               \* the last call on the table and what it returned
    run,                \* consecutive generated-name calls since a fresh category
    hist,               \* the last removal, and what the last keyed insertion replaced
    \* ---- PdfName: construction, escaping, writing ----
    input,              \* the bytes handed to the constructors
    name,               \* the PdfName object: m_data and m_dataView
    buffer,             \* the caller's escape buffer (charbuff& of Write)
    device,             \* what has been written to the OutputStream
    escaped,            \* the last GetEscapedName result and the bytes it escaped
    status,             \* the last PdfName call and the error it raised
    \* ---- PdfName: two names compared ----
    pair,               \* the two PdfName objects, lhs and rhs
    built,              \* how each was constructed, and from what
    shown,              \* what the last GetString on each returned
    \* ---- PdfName: one owned name shared by two threads calling GetString ----
    shared,             \* its NameData: Chars, Utf8String (a heap address, 0 = null), IsUtf8Expanded
    heap,               \* the strings allocated by expandUtf8String, by address
    pc,                 \* where each thread is in GetString / expandUtf8String
    frame,              \* each thread's locals and the view it was returned
    observed            \* the text each caller read through its view

tableVars == <<m_dict, m_currResourceIds, last, run, hist>>
nameVars == <<input, name, buffer, device, escaped, status>>

pairVars == <<pair, built, shown>>
raceVars == <<shared, heap, pc, frame, observed>>

vars == <<m_dict, m_currResourceIds, last, run, hist,
          input, name, buffer, device, escaped, status,
          pair, built, shown,
          shared, heap, pc, frame, observed>>

(***************************************************************************)
(* Bounds of the model.                                                    *)
(***************************************************************************)
MaxId == 4          \* generated-name calls are explored while the counter stays <= MaxId
MaxKeys == 2        \* keys held by the whole table at any time
MaxManual == 2      \* caller-chosen keys are prefix0 .. prefix<MaxManual> and "F1"
MaxLen == 4         \* length of the byte strings handed to the PdfName constructors
MaxPairLen == 2     \* length of the byte strings and texts the compared names are built from

(***************************************************************************)
(* PdfResourceType and its two mappings.                                   *)
(***************************************************************************)
InvalidEnumValue == "InvalidEnumValue"
NoError == "none"

\* The seven members, in the order of the switch statements.
ValidTypes == 1..7
\* The values the calls of the model are made with: XObject, Font, and 0, a
\* value outside the enumeration.
CallTypes == {5, 6, 0}

getResourceTypeName(type) ==
    CASE type = 1 -> "ExtGState"
      [] type = 2 -> "ColorSpace"
      [] type = 3 -> "Pattern"
      [] type = 4 -> "Shading"
      [] type = 5 -> "XObject"
      [] type = 6 -> "Font"
      [] type = 7 -> "Properties"
      [] OTHER    -> InvalidEnumValue

getResourceTypePrefix(type) ==
    CASE type = 1 -> "ExtG"
      [] type = 2 -> "CS"
      [] type = 3 -> "Ptrn"
      [] type = 4 -> "Shd"
      [] type = 5 -> "XOb"
      [] type = 6 -> "Ft"
      [] type = 7 -> "Prop"
      [] OTHER    -> InvalidEnumValue

(***************************************************************************)
(* std::to_string(unsigned)                                                *)
(***************************************************************************)
DecimalDigits == <<"0", "1", "2", "3", "4", "5", "6", "7", "8", "9">>

RECURSIVE to_string(_)
to_string(n) ==
    IF n < 10 THEN DecimalDigits[n + 1]
    ELSE to_string(n \div 10) \o DecimalDigits[(n % 10) + 1]

(***************************************************************************)
(* The dictionary collaborator.  A dictionary is a function from the keys  *)
(* it holds to values.  A value of the owning dictionary is a record: a    *)
(* sub-dictionary (isDict, with its entries) or another object (the        *)
(* ProcSet array).  A value of a sub-dictionary is the referenced object.  *)
(***************************************************************************)
Objects == {"obj1", "obj2"}
\* The objects the calls of the model are made with.
CallObjects == {"obj1"}
NullObject == "null"

EmptyDictionary == [k \in {} |-> NullObject]

HasKey(dict, key) == key \in DOMAIN dict

AddKey(dict, key, value) ==
    [k \in (DOMAIN dict) \cup {key} |-> IF k = key THEN value ELSE dict[k]]

RemoveKey(dict, key) ==
    [k \in (DOMAIN dict) \ {key} |-> dict[k]]

FindKey(dict, key) ==
    IF key \in DOMAIN dict THEN dict[key] ELSE NullObject

NewSubDictionary == [isDict |-> TRUE, entries |-> EmptyDictionary]
ProcSetArray == [isDict |-> FALSE, entries |-> EmptyDictionary]

\* tryGetDictionary: the sub-dictionary under `type`, if there is one.
tryGetDictionary(top, type) ==
    IF ~HasKey(top, type) THEN FALSE
    ELSE top[type].isDict

\* getOrCreateDictionary: the owning dictionary after the call.
getOrCreateDictionary(top, type) ==
    IF ~tryGetDictionary(top, type) THEN AddKey(top, type, NewSubDictionary)
    ELSE top

\* The keys of the category's sub-dictionary ({} when there is none).
KeysOf(top, type) ==
    IF tryGetDictionary(top, type) THEN DOMAIN top[type].entries ELSE {}

RECURSIVE SumKeys(_, _)
SumKeys(top, S) ==
    IF S = {} THEN 0
    ELSE LET k == CHOOSE x \in S : TRUE
         IN Cardinality(DOMAIN top[k].entries) + SumKeys(top, S \ {k})

TotalKeys(top) == SumKeys(top, DOMAIN top)

(***************************************************************************)
(* PdfResources::AddResource(type, obj): the probing loop.  Returns the    *)
(* value of m_currResourceIds[type - 1] when the loop breaks.              *)
(***************************************************************************)
\* Mutant: the candidate is taken without asking the dictionary.
ProbeLoop_NoHasKey(dict, prefix, currId) == currId

\* Mutant: the counter is advanced before the first candidate is tried.
ProbeLoop_PreIncrement(dict, prefix, currId) ==
    CHOOSE k \in (currId + 1)..(currId + 1 + Cardinality(DOMAIN dict)) :
        /\ ~HasKey(dict, prefix \o to_string(k))
        /\ \A j \in (currId + 1)..(k - 1) : HasKey(dict, prefix \o to_string(j))

\* Mutant: the probing starts again from zero on every call.
ProbeLoop_FromZero(dict, prefix, currId) ==
    CHOOSE k \in 0..Cardinality(DOMAIN dict) :
        /\ ~HasKey(dict, prefix \o to_string(k))
        /\ \A j \in 0..(k - 1) : HasKey(dict, prefix \o to_string(j))

RECURSIVE ProbeLoop(_, _, _)
ProbeLoop(dict, prefix, currId) ==
    LET currName == prefix \o to_string(currId)
    IN IF ~HasKey(dict, currName) THEN currId
       ELSE ProbeLoop(dict, prefix, currId + 1)

NoRun == [type |-> 0, n |-> 0]

\* No removal and no replacement on record.
NoHist == [by |-> "none", type |-> 0, keys |-> {}, n |-> 0, phase |-> "none",
           replaced |-> NullObject]

\* A call on the table: its arguments, what it returned or raised and, for a
\* generated-name call, the category's counter at entry (from).
Call(op, type, key, ret, err) ==
    [op |-> op, type |-> type, key |-> key, ret |-> ret, err |-> err, from |-> 0]

\* The category is fresh: no sub-dictionary or an empty one, counter zero.
Fresh(top, ids, type) ==
    /\ KeysOf(top, getResourceTypeName(type)) = {}
    /\ ids[type] = 0

\* PdfName AddResource(PdfResourceType type, const PdfObject& obj)
AddResource(type, obj) ==
    LET tname == getResourceTypeName(type) IN
    IF tname = InvalidEnumValue
    THEN /\ last' = Call("AddResource", type, "", "", InvalidEnumValue)
         /\ run' = NoRun
         /\ UNCHANGED <<m_dict, m_currResourceIds>>
    ELSE LET top == getOrCreateDictionary(m_dict, tname)
             dict == top[tname].entries
             prefix == getResourceTypePrefix(type)
             currId == ProbeLoop(dict, prefix, m_currResourceIds[type])
             currName == prefix \o to_string(currId)
         IN /\ currId <= MaxId
            /\ TotalKeys(m_dict) < MaxKeys
            /\ m_dict' = [top EXCEPT ![tname].entries = AddKey(dict, currName, obj)]
            /\ m_currResourceIds' = [m_currResourceIds EXCEPT ![type] = currId]
            /\ last' = [Call("AddResource", type, currName, currName, NoError)
                          EXCEPT !.from = m_currResourceIds[type]]
            /\ run' = IF Fresh(m_dict, m_currResourceIds, type)
                        THEN [type |-> type, n |-> 1]
                      ELSE IF run.type = type
                        THEN [type |-> type, n |-> run.n + 1]
                      ELSE NoRun

\* The keys the calls of the model pass for a category: the names the
\* allocator can generate for it, and one it cannot.
CallKeys(type) ==
    IF type \in ValidTypes
    THEN {getResourceTypePrefix(type) \o to_string(k) : k \in 0..MaxManual} \cup {"F1"}
    ELSE {"F1"}

\* Mutant: a key already present keeps its object.
AddResourceKey_KeepExisting(type, key, obj) ==
    LET tname == getResourceTypeName(type) IN
    IF tname = InvalidEnumValue
    THEN /\ last' = Call("AddResourceKey", type, key, "", InvalidEnumValue)
         /\ run' = NoRun
         /\ UNCHANGED <<m_dict, m_currResourceIds>>
    ELSE LET top == getOrCreateDictionary(m_dict, tname)
             dict == top[tname].entries
         IN /\ TotalKeys(m_dict) < MaxKeys \/ key \in KeysOf(m_dict, tname)
            /\ m_dict' = IF HasKey(dict, key) THEN top
                         ELSE [top EXCEPT ![tname].entries = AddKey(dict, key, obj)]
            /\ last' = Call("AddResourceKey", type, key, "", NoError)
            /\ run' = NoRun
            /\ UNCHANGED m_currResourceIds

\* void AddResource(PdfResourceType type, const PdfName& key, const PdfObject& obj)
AddResourceKey(type, key, obj) ==
    LET tname == getResourceTypeName(type) IN
    IF tname = InvalidEnumValue
    THEN /\ last' = Call("AddResourceKey", type, key, "", InvalidEnumValue)
         /\ run' = NoRun
         /\ UNCHANGED <<m_dict, m_currResourceIds>>
    ELSE LET top == getOrCreateDictionary(m_dict, tname)
             dict == top[tname].entries
         IN /\ TotalKeys(m_dict) < MaxKeys \/ key \in KeysOf(m_dict, tname)
            /\ m_dict' = [top EXCEPT ![tname].entries = AddKey(dict, key, obj)]
            /\ last' = Call("AddResourceKey", type, key, "", NoError)
            /\ run' = NoRun
            /\ UNCHANGED m_currResourceIds

\* Mutant: the sub-dictionary is fetched with getOrCreateDictionary.
RemoveResource_Creating(type, key) ==
    LET tname == getResourceTypeName(type) IN
    IF tname = InvalidEnumValue
    THEN /\ last' = Call("RemoveResource", type, key, "", InvalidEnumValue)
         /\ run' = NoRun
         /\ UNCHANGED <<m_dict, m_currResourceIds>>
    ELSE /\ m_dict' = [getOrCreateDictionary(m_dict, tname)
                         EXCEPT ![tname].entries = RemoveKey(@, key)]
         /\ last' = Call("RemoveResource", type, key, "", NoError)
         /\ run' = NoRun
         /\ UNCHANGED m_currResourceIds

\* void RemoveResource(PdfResourceType type, const string_view& key)
RemoveResource(type, key) ==
    LET tname == getResourceTypeName(type) IN
    IF tname = InvalidEnumValue
    THEN /\ last' = Call("RemoveResource", type, key, "", InvalidEnumValue)
         /\ run' = NoRun
         /\ UNCHANGED <<m_dict, m_currResourceIds>>
    ELSE /\ m_dict' = IF ~tryGetDictionary(m_dict, tname) THEN m_dict
                      ELSE [m_dict EXCEPT ![tname].entries = RemoveKey(@, key)]
         /\ last' = Call("RemoveResource", type, key, "", NoError)
         /\ run' = NoRun
         /\ UNCHANGED m_currResourceIds

\* Mutant: removing a category also resets its counter.
RemoveResources_ResetCounter(type) ==
    LET tname == getResourceTypeName(type) IN
    /\ tname # InvalidEnumValue
    /\ m_dict' = RemoveKey(m_dict, tname)
    /\ m_currResourceIds' = [m_currResourceIds EXCEPT ![type] = 0]
    /\ last' = Call("RemoveResources", type, "", "", NoError)
    /\ run' = NoRun

\* void RemoveResources(PdfResourceType type)
RemoveResources(type) ==
    LET tname == getResourceTypeName(type) IN
    IF tname = InvalidEnumValue
    THEN /\ last' = Call("RemoveResources", type, "", "", InvalidEnumValue)
         /\ run' = NoRun
         /\ UNCHANGED <<m_dict, m_currResourceIds>>
    ELSE /\ m_dict' = RemoveKey(m_dict, tname)
         /\ last' = Call("RemoveResources", type, "", "", NoError)
         /\ run' = NoRun
         /\ UNCHANGED m_currResourceIds

\* PdfResources::getResource: the object under `key`, or nothing.
getResource(top, type, key) ==
    IF ~HasKey(top, type) \/ ~top[type].isDict THEN NullObject
    ELSE FindKey(top[type].entries, key)

\* Mutant: a value outside the enumeration is answered with nothing.
GetResource_NothingOnInvalid(type, key) ==
    LET tname == getResourceTypeName(type) IN
    /\ last' = Call("GetResource", type, key,
                    IF tname = InvalidEnumValue THEN NullObject
                    ELSE getResource(m_dict, tname, key), NoError)
    /\ run' = NoRun
    /\ UNCHANGED <<m_dict, m_currResourceIds>>

\* Mutant: the sub-dictionary is fetched with getOrCreateDictionary.
GetResource_Creating(type, key) ==
    LET tname == getResourceTypeName(type) IN
    IF tname = InvalidEnumValue
    THEN /\ last' = Call("GetResource", type, key, "", InvalidEnumValue)
         /\ run' = NoRun
         /\ UNCHANGED <<m_dict, m_currResourceIds>>
    ELSE /\ m_dict' = getOrCreateDictionary(m_dict, tname)
         /\ last' = Call("GetResource", type, key, getResource(m_dict, tname, key), NoError)
         /\ run' = NoRun
         /\ UNCHANGED m_currResourceIds

\* PdfObject* GetResource(PdfResourceType type, const string_view& key)
GetResource(type, key) ==
    LET tname == getResourceTypeName(type) IN
    IF tname = InvalidEnumValue
    THEN /\ last' = Call("GetResource", type, key, "", InvalidEnumValue)
         /\ run' = NoRun
         /\ UNCHANGED <<m_dict, m_currResourceIds>>
    ELSE /\ last' = Call("GetResource", type, key, getResource(m_dict, tname, key), NoError)
         /\ run' = NoRun
         /\ UNCHANGED <<m_dict, m_currResourceIds>>

\* PdfResources::PdfResources(PdfCanvas& canvas): a new /Resources dictionary
\* holding the ProcSet array, every counter zero.
TableInit ==
    /\ m_dict = AddKey(EmptyDictionary, "ProcSet", ProcSetArray)
    /\ m_currResourceIds = [t \in ValidTypes |-> 0]
    /\ last = Call("construct", 0, "", "", NoError)
    /\ run = NoRun
    /\ hist = NoHist

(***************************************************************************)
(* The history kept beside the table by SpecHist.  hist records the last   *)
(* removal that deleted something: the call (by), its category (type), the *)
(* keys it deleted (keys) and, when it came straight after a run of        *)
(* generated-name calls on a fresh category, the length of that run (n).   *)
(* phase is "removed" until the next call, "allocated" when that next call *)
(* is a generated-name call on the same category.  replaced is the object  *)
(* the last keyed insertion found under its key.                           *)
(***************************************************************************)
\* hist after AddResource(type, obj)
HistAfterAdd(type) ==
    [hist EXCEPT !.phase = IF hist.phase = "removed" /\ hist.type = type
                           THEN "allocated" ELSE "none",
                 !.replaced = NullObject]

\* hist after AddResource(type, key, obj)
HistAfterAddKey(type, key) ==
    [hist EXCEPT !.phase = "none",
                 !.replaced = getResource(m_dict, getResourceTypeName(type), key)]

\* hist after RemoveResource(type, key)
HistAfterRemove(type, key) ==
    IF key \in KeysOf(m_dict, getResourceTypeName(type))
    THEN [by |-> "RemoveResource", type |-> type, keys |-> {key},
          n |-> IF run.type = type THEN run.n ELSE 0,
          phase |-> "removed", replaced |-> NullObject]
    ELSE [hist EXCEPT !.phase = "none", !.replaced = NullObject]

\* hist after RemoveResources(type)
HistAfterRemoveAll(type) ==
    IF HasKey(m_dict, getResourceTypeName(type))
    THEN [by |-> "RemoveResources", type |-> type,
          keys |-> KeysOf(m_dict, getResourceTypeName(type)),
          n |-> IF run.type = type THEN run.n ELSE 0,
          phase |-> "removed", replaced |-> NullObject]
    ELSE [hist EXCEPT !.phase = "none", !.replaced = NullObject]

\* hist after GetResource(type, key)
HistAfterGet == [hist EXCEPT !.phase = "none", !.replaced = NullObject]



(***************************************************************************)
(* PdfName.  Bytes are integers in 0..255 and buffers are sequences of     *)
(* bytes.                                                                  *)
(***************************************************************************)
InvalidName == "InvalidName"

\* The bytes the constructors are fed: NUL, space (whitespace), '#', '/'
\* (a delimiter), '1', 'A', 'B' and 0xE9 (outside ASCII).
InputBytes == {0, 32, 35, 47, 49, 65, 66, 233}

\* The strings over S of length at most n.
RECURSIVE StringsOver(_, _)
StringsOver(S, n) ==
    IF n = 0 THEN {<< >>}
    ELSE LET shorter == StringsOver(S, n - 1)
         IN shorter \cup {Append(s, b) : s \in {t \in shorter : Len(t) = n - 1}, b \in S}

\* PdfTokenizer::IsWhitespace, IsDelimiter, IsRegular, IsPrintable.
IsWhitespace(ch) == ch \in {0, 9, 10, 12, 13, 32}

IsDelimiter(ch) == ch \in {40, 41, 60, 62, 91, 93, 123, 125, 47, 37}

IsRegular(ch) == ~IsWhitespace(ch) /\ ~IsDelimiter(ch)

IsPrintable(ch) == ch > 32 /\ ch <= 125

\* Mutant: only decimal digits are copied as they are.
IsVerbatim_DigitsOnly(ch) == ch \in 48..57

\* The test of both passes of escapeNameTo: the byte is copied as it is.
IsVerbatim(ch) == IsRegular(ch) /\ IsPrintable(ch) /\ ch # 35

\* hexchr: the two characters written for ch.
HexDigits == <<48, 49, 50, 51, 52, 53, 54, 55, 56, 57, 65, 66, 67, 68, 69, 70>>

\* Mutant: the two digits are written low nibble first.
hexchr_LowFirst(ch) == <<HexDigits[(ch % 16) + 1], HexDigits[(ch \div 16) + 1]>>

hexchr(ch) == <<HexDigits[(ch \div 16) + 1], HexDigits[(ch % 16) + 1]>>

\* escapeNameTo, first pass: the output length, or -1 when it raises
\* InvalidName on a null byte.
RECURSIVE CountOutChars(_, _, _)
CountOutChars(view, i, outchars) ==
    IF i > Len(view) THEN outchars
    ELSE IF view[i] = 0 THEN -1
    ELSE CountOutChars(view, i + 1, outchars + (IF IsVerbatim(view[i]) THEN 1 ELSE 3))

\* std::string::resize(n): the old bytes kept, new ones zero.
Resize(dst, n) == [i \in 1..n |-> IF i <= Len(dst) THEN dst[i] ELSE 0]

\* Writing `bytes` through the iterator at position `bufIt` of dst.
WriteAt(dst, bufIt, bytes) ==
    [i \in 1..Len(dst) |->
        IF i >= bufIt /\ i < bufIt + Len(bytes) THEN bytes[i - bufIt + 1] ELSE dst[i]]

\* escapeNameTo, second pass.
RECURSIVE GenerateEncoded(_, _, _, _)
GenerateEncoded(view, i, dst, bufIt) ==
    IF i > Len(view) THEN dst
    ELSE IF IsVerbatim(view[i])
         THEN GenerateEncoded(view, i + 1, WriteAt(dst, bufIt, <<view[i]>>), bufIt + 1)
         ELSE GenerateEncoded(view, i + 1,
                              WriteAt(dst, bufIt, <<35>> \o hexchr(view[i])), bufIt + 3)

\* escapeNameTo, second pass: the position of the iterator bufIt when the
\* loop ends.
RECURSIVE GenerateEncodedEnd(_, _, _)
GenerateEncodedEnd(view, i, bufIt) ==
    IF i > Len(view) THEN bufIt
    ELSE GenerateEncodedEnd(view, i + 1, bufIt + (IF IsVerbatim(view[i]) THEN 1 ELSE 3))

\* Mutant: the destination is resized to the length of the input.
escapeNameTo_ResizeToInput(dst, view) ==
    LET outchars == CountOutChars(view, 1, 0)
    IN IF outchars < 0 THEN [err |-> InvalidName, dst |-> dst]
       ELSE [err |-> NoError,
             dst |-> GenerateEncoded(view, 1, Resize(dst, Len(view)), 1)]

\* Mutant: the destination is emptied before the input is scanned.
escapeNameTo_ClearFirst(dst, view) ==
    LET outchars == CountOutChars(view, 1, 0)
    IN IF outchars < 0 THEN [err |-> InvalidName, dst |-> << >>]
       ELSE [err |-> NoError,
             dst |-> GenerateEncoded(view, 1, Resize(<< >>, outchars), 1)]

\* void escapeNameTo(string& dst, const bufferview& view): the error raised
\* and dst after the call.
escapeNameTo(dst, view) ==
    LET outchars == CountOutChars(view, 1, 0)
    IN IF outchars < 0 THEN [err |-> InvalidName, dst |-> dst]
       ELSE [err |-> NoError,
             dst |-> GenerateEncoded(view, 1, Resize(dst, outchars), 1)]

\* Mutant: every digit is taken for a decimal digit.
HexValue_DigitsOnly(digit) == (digit - 48) % 256

\* unescapeName: the value of one hexadecimal digit, in unsigned char arithmetic.
HexValue(digit) == (digit - (IF digit < 65 THEN 48 ELSE 55)) % 256

\* unescapeName: the loop.  incount is the counter before the test
\* `incount++ < view.length()`, curr the (1-based) position of *curr.
RECURSIVE UnescapeLoop(_, _, _, _)
UnescapeLoop(view, incount, curr, ret) ==
    IF ~(incount < Len(view)) THEN ret
    ELSE IF view[curr] = 35 /\ (incount + 1) + 1 < Len(view)
         THEN LET hi == HexValue(view[curr + 1])
                  low == HexValue(view[curr + 2])
                  codepoint == ((hi * 16) + (low % 16)) % 256
              IN UnescapeLoop(view, incount + 3, curr + 3, Append(ret, codepoint))
         ELSE UnescapeLoop(view, incount + 1, curr + 1, Append(ret, view[curr]))

\* Mutant: an escape is taken only when three more bytes remain.
RECURSIVE UnescapeLoop_OffByOne(_, _, _, _)
UnescapeLoop_OffByOne(view, incount, curr, ret) ==
    IF ~(incount < Len(view)) THEN ret
    ELSE IF view[curr] = 35 /\ (incount + 1) + 2 < Len(view)
         THEN LET hi == HexValue(view[curr + 1])
                  low == HexValue(view[curr + 2])
                  codepoint == ((hi * 16) + (low % 16)) % 256
              IN UnescapeLoop_OffByOne(view, incount + 3, curr + 3, Append(ret, codepoint))
         ELSE UnescapeLoop_OffByOne(view, incount + 1, curr + 1, Append(ret, view[curr]))

unescapeName_OffByOne(view) == UnescapeLoop_OffByOne(view, 0, 1, << >>)

\* string unescapeName(const string_view& view)
unescapeName(view) == UnescapeLoop(view, 0, 1, << >>)

(***************************************************************************)
(* The PdfName object.  m_data is the owned NameData (Chars, Utf8String,   *)
(* IsUtf8Expanded) or null; m_dataView is a view: where its data pointer   *)
(* points ("null", "chars" for m_data->Chars, "literal") and the bytes.    *)
(***************************************************************************)
NullData ==
    [owned |-> FALSE, Chars |-> << >>, hasUtf8 |-> FALSE, Utf8String |-> << >>,
     IsUtf8Expanded |-> FALSE]

\* PdfName::PdfName()
DefaultName == [m_data |-> NullData, m_dataView |-> [data |-> "null", bytes |-> << >>]]

\* PdfName::PdfName(charbuff&& buff)
NameFromBuffer(buff) ==
    [m_data |-> [owned |-> TRUE, Chars |-> buff, hasUtf8 |-> FALSE,
                 Utf8String |-> << >>, IsUtf8Expanded |-> FALSE],
     m_dataView |-> [data |-> "chars", bytes |-> buff]]

\* PdfName::PdfName(const char* str, size_t length), for string literals
NameFromLiteral(str) ==
    [m_data |-> NullData, m_dataView |-> [data |-> "literal", bytes |-> str]]

\* PdfName::FromRaw
FromRaw(rawcontent) == NameFromBuffer(rawcontent)

\* PdfName::FromEscaped
FromEscaped(view) == FromRaw(unescapeName(view))

\* PdfName::GetRawData
GetRawData(n) == n.m_dataView.bytes

\* PdfName::IsNull: whether the condition of PODOFO_INVARIANT holds, and the
\* value returned.
IsNull(n) ==
    [invariant |-> Len(n.m_dataView.bytes) # 0 \/ n.m_dataView.data = "null",
     ret |-> Len(n.m_dataView.bytes) = 0]

(***************************************************************************)
(* The charset conversions PdfName calls (PdfEncodingPrivate).  Text is    *)
(* UTF-8 of code points below U+0800; the table is PdfDocEncoding on the   *)
(* rows where it agrees with ASCII and Latin-1.                            *)
(***************************************************************************)
RECURSIVE Utf8Encode(_)
Utf8Encode(cps) ==
    IF cps = << >> THEN << >>
    ELSE LET cp == Head(cps)
         IN (IF cp < 128 THEN <<cp>> ELSE <<192 + (cp \div 64), 128 + (cp % 64)>>)
            \o Utf8Encode(Tail(cps))

RECURSIVE Utf8Decode(_)
Utf8Decode(bytes) ==
    IF bytes = << >> THEN << >>
    ELSE IF Head(bytes) < 128 \/ Len(bytes) < 2
         THEN <<Head(bytes)>> \o Utf8Decode(Tail(bytes))
         ELSE <<(Head(bytes) - 192) * 64 + (bytes[2] - 128)>>
              \o Utf8Decode(SubSeq(bytes, 3, Len(bytes)))

\* The PdfDocEncoding byte of a code point, -1 when it has none.
PdfDocByteOf(cp) == IF cp < 128 \/ cp \in 161..255 THEN cp ELSE -1

\* The code point of a PdfDocEncoding byte.
CodePointOf(byte) == byte

\* CheckValidUTF8ToPdfDocEcondingChars: valid, and isAsciiEqual.
CheckValidUTF8ToPdfDocEcondingChars(view) ==
    LET cps == Utf8Decode(view)
    IN [valid |-> \A i \in 1..Len(cps) : PdfDocByteOf(cps[i]) # -1,
        isAsciiEqual |-> \A i \in 1..Len(cps) : cps[i] < 128]

\* ConvertUTF8ToPdfDocEncoding
ConvertUTF8ToPdfDocEncoding(view) ==
    LET cps == Utf8Decode(view) IN [i \in 1..Len(cps) |-> PdfDocByteOf(cps[i])]

\* ConvertPdfDocEncodingToUTF8: the text, and isAsciiEqual.
ConvertPdfDocEncodingToUTF8(chars) ==
    [utf8str |-> Utf8Encode([i \in 1..Len(chars) |-> CodePointOf(chars[i])]),
     isAsciiEqual |-> \A i \in 1..Len(chars) : chars[i] < 128]

\* PdfName::initFromUtf8String(const string_view& view): the error raised and
\* the name constructed.
initFromUtf8String(view) ==
    IF Len(view) = 0 THEN [err |-> NoError, name |-> DefaultName]
    ELSE LET check == CheckValidUTF8ToPdfDocEcondingChars(view)
         IN IF ~check.valid THEN [err |-> InvalidName, name |-> DefaultName]
            ELSE IF check.isAsciiEqual
            THEN [err |-> NoError,
                  name |-> [m_data |-> [owned |-> TRUE, Chars |-> view,
                                        hasUtf8 |-> FALSE, Utf8String |-> << >>,
                                        IsUtf8Expanded |-> TRUE],
                            m_dataView |-> [data |-> "chars", bytes |-> view]]]
            ELSE LET chars == ConvertUTF8ToPdfDocEncoding(view)
                 IN [err |-> NoError,
                     name |-> [m_data |-> [owned |-> TRUE, Chars |-> chars,
                                           hasUtf8 |-> TRUE, Utf8String |-> view,
                                           IsUtf8Expanded |-> TRUE],
                               m_dataView |-> [data |-> "chars", bytes |-> chars]]]

\* PdfName::expandUtf8String: the name after the call.
expandUtf8String(n) ==
    IF ~n.m_data.IsUtf8Expanded
    THEN LET conv == ConvertPdfDocEncodingToUTF8(n.m_data.Chars)
         IN [n EXCEPT !.m_data.hasUtf8 = IF ~conv.isAsciiEqual THEN TRUE ELSE @,
                      !.m_data.Utf8String = IF ~conv.isAsciiEqual THEN conv.utf8str ELSE @,
                      !.m_data.IsUtf8Expanded = TRUE]
    ELSE n

\* PdfName::GetString: the name after the call and the text returned.
GetString(n) ==
    IF ~n.m_data.owned THEN [name |-> n, text |-> n.m_dataView.bytes]
    ELSE LET e == expandUtf8String(n)
         IN [name |-> e,
             text |-> IF ~e.m_data.hasUtf8 THEN e.m_data.Chars ELSE e.m_data.Utf8String]

\* Mutant: equality compares the whole objects, caches included.
NameEqual_WholeObject(a, b) == a.m_data = b.m_data /\ a.m_dataView.bytes = b.m_dataView.bytes

\* PdfName::operator==(const PdfName& rhs)
NameEqual(a, b) == a.m_dataView.bytes = b.m_dataView.bytes

\* PdfName::operator!=(const PdfName& rhs)
NameNotEqual(a, b) == a.m_dataView.bytes # b.m_dataView.bytes

\* string_view's operator<: the first differing byte decides, then the length.
ViewLess(x, y) ==
    \/ \E i \in 1..Len(x) :
          /\ i <= Len(y)
          /\ x[i] < y[i]
          /\ \A j \in 1..(i - 1) : x[j] = y[j]
    \/ /\ Len(x) < Len(y)
       /\ \A j \in 1..Len(x) : x[j] = y[j]

\* PdfName::operator<(const PdfName& rhs)
NameLess(a, b) == ViewLess(a.m_dataView.bytes, b.m_dataView.bytes)

\* The bytes and the code points the compared names are built from: 'A', 'B'
\* and 0xE9 as bytes; 'A', 'B', U+00E9 and U+0100 (not in PdfDocEncoding) as text.
PairBytes == {65, 66, 233}
PairCodePoints == {65, 66, 233, 256}

Sides == {"lhs", "rhs"}

NotBuilt == [by |-> "none", arg |-> << >>, err |-> NoError]
NotShown == [called |-> FALSE, text |-> << >>]

PairInit ==
    /\ pair = [s \in Sides |-> DefaultName]
    /\ built = [s \in Sides |-> NotBuilt]
    /\ shown = [s \in Sides |-> NotShown]

\* pair[side] = PdfName::FromRaw(bytes)
BuildFromRaw(side, bytes) ==
    /\ built[side].by = "none"
    /\ pair' = [pair EXCEPT ![side] = FromRaw(bytes)]
    /\ built' = [built EXCEPT ![side] = [by |-> "FromRaw", arg |-> bytes, err |-> NoError]]
    /\ UNCHANGED shown

\* pair[side] = PdfName(text), text a UTF-8 string_view
BuildFromUtf8(side, text) ==
    /\ built[side].by = "none"
    /\ LET r == initFromUtf8String(text)
       IN /\ pair' = [pair EXCEPT ![side] = r.name]
          /\ built' = [built EXCEPT ![side] = [by |-> "FromUtf8", arg |-> text, err |-> r.err]]
    /\ UNCHANGED shown

\* pair[side] = PdfName(literal, length)
BuildLiteral(side, bytes) ==
    /\ built[side].by = "none"
    /\ pair' = [pair EXCEPT ![side] = NameFromLiteral(bytes)]
    /\ built' = [built EXCEPT ![side] = [by |-> "Literal", arg |-> bytes, err |-> NoError]]
    /\ UNCHANGED shown

\* pair[side].GetString()
CallGetString(side) ==
    /\ built[side].by # "none"
    /\ built[side].err = NoError
    /\ LET r == GetString(pair[side])
       IN /\ pair' = [pair EXCEPT ![side] = r.name]
          /\ shown' = [shown EXCEPT ![side] = [called |-> TRUE, text |-> r.text]]
    /\ UNCHANGED built

(***************************************************************************)
(* GetString on one owned name from two threads, statement by statement.   *)
(* Nothing in PdfName orders the threads' reads and writes of m_data.      *)
(* A string allocated by expandUtf8String lives on the heap at the address *)
(* of the thread that allocated it; unique_ptr::reset stores the new       *)
(* address and deletes the string at the old one.  Reading a deleted       *)
(* string gives its old bytes or whatever has replaced them.               *)
(***************************************************************************)
Threads == {1, 2}

NoFrame == [utf8str |-> << >>, isAsciiEqual |-> TRUE, old |-> 0,
            view |-> [kind |-> "none", addr |-> 0]]
NotObserved == [read |-> FALSE, text |-> << >>]
Unallocated == [state |-> "unallocated", content |-> << >>]

RaceIdle ==
    /\ shared = [Chars |-> << >>, Utf8String |-> 0, IsUtf8Expanded |-> FALSE]
    /\ heap = [a \in Threads |-> Unallocated]
    /\ pc = [t \in Threads |-> "idle"]
    /\ frame = [t \in Threads |-> NoFrame]
    /\ observed = [t \in Threads |-> NotObserved]

\* The shared name is PdfName::FromRaw(bytes): owned, not yet expanded.
RaceInit ==
    /\ \E bytes \in StringsOver(PairBytes, MaxPairLen) :
          shared = [Chars |-> FromRaw(bytes).m_data.Chars, Utf8String |-> 0,
                    IsUtf8Expanded |-> FromRaw(bytes).m_data.IsUtf8Expanded]
    /\ heap = [a \in Threads |-> Unallocated]
    /\ pc = [t \in Threads |-> "GetString"]
    /\ frame = [t \in Threads |-> NoFrame]
    /\ observed = [t \in Threads |-> NotObserved]

\* GetString: m_data != nullptr, so expandUtf8String is entered and reads
\* m_data->IsUtf8Expanded.
ReadIsExpanded(t) ==
    /\ pc[t] = "GetString"
    /\ pc' = [pc EXCEPT ![t] = IF ~shared.IsUtf8Expanded THEN "decode" ELSE "select"]
    /\ UNCHANGED <<shared, heap, frame, observed>>

\* ConvertPdfDocEncodingToUTF8(m_data->Chars, utf8str, isAsciiEqual)
Decode(t) ==
    /\ pc[t] = "decode"
    /\ LET conv == ConvertPdfDocEncodingToUTF8(shared.Chars)
       IN /\ frame' = [frame EXCEPT ![t].utf8str = conv.utf8str,
                                    ![t].isAsciiEqual = conv.isAsciiEqual]
          /\ pc' = [pc EXCEPT ![t] = IF ~conv.isAsciiEqual THEN "new" ELSE "flag"]
    /\ UNCHANGED <<shared, heap, observed>>

\* new string(std::move(utf8str)), and reset reading the old pointer
NewString(t) ==
    /\ pc[t] = "new"
    /\ heap' = [heap EXCEPT ![t] = [state |-> "alive", content |-> frame[t].utf8str]]
    /\ frame' = [frame EXCEPT ![t].old = shared.Utf8String]
    /\ pc' = [pc EXCEPT ![t] = "store"]
    /\ UNCHANGED <<shared, observed>>

\* reset storing the new pointer
StoreCache(t) ==
    /\ pc[t] = "store"
    /\ shared' = [shared EXCEPT !.Utf8String = t]
    /\ pc' = [pc EXCEPT ![t] = "delete"]
    /\ UNCHANGED <<heap, frame, observed>>

\* reset deleting the string at the old pointer
DeleteOld(t) ==
    /\ pc[t] = "delete"
    /\ heap' = IF frame[t].old # 0
               THEN [heap EXCEPT ![frame[t].old].state = "deleted"]
               ELSE heap
    /\ pc' = [pc EXCEPT ![t] = "flag"]
    /\ UNCHANGED <<shared, frame, observed>>

\* m_data->IsUtf8Expanded = true
SetIsExpanded(t) ==
    /\ pc[t] = "flag"
    /\ shared' = [shared EXCEPT !.IsUtf8Expanded = TRUE]
    /\ pc' = [pc EXCEPT ![t] = "select"]
    /\ UNCHANGED <<heap, frame, observed>>

\* GetString returning m_data->Chars or *m_data->Utf8String as a view
ReturnView(t) ==
    /\ pc[t] = "select"
    /\ frame' = [frame EXCEPT ![t].view =
                    IF shared.Utf8String = 0 THEN [kind |-> "chars", addr |-> 0]
                    ELSE [kind |-> "heap", addr |-> shared.Utf8String]]
    /\ pc' = [pc EXCEPT ![t] = "returned"]
    /\ UNCHANGED <<shared, heap, observed>>

\* What a read through a view can give.
ViewTexts(view) ==
    IF view.kind = "chars" THEN {shared.Chars}
    ELSE IF heap[view.addr].state = "alive" THEN {heap[view.addr].content}
    ELSE {heap[view.addr].content,
          [i \in 1..Len(heap[view.addr].content) |-> 0]}

\* The caller reads the text it was returned.
ReadText(t) ==
    /\ pc[t] = "returned"
    /\ \E text \in ViewTexts(frame[t].view) :
          observed' = [observed EXCEPT ![t] = [read |-> TRUE, text |-> text]]
    /\ pc' = [pc EXCEPT ![t] = "done"]
    /\ UNCHANGED <<shared, heap, frame>>

NoEscaped == [of |-> << >>, text |-> << >>, valid |-> FALSE]

\* The escape buffers a caller may bring: empty, or holding an earlier name.
CallerBuffers == {<< >>, <<88, 89>>}

\* The characters 0-9, A-F and a-f, and the escapes '#' h l over them.
HexChars == (48..57) \cup (65..70) \cup (97..102)
HexEscapes == {<<35, h, l>> : h \in HexChars, l \in HexChars}

NameInit ==
    /\ input \in StringsOver(InputBytes, MaxLen) \cup {<<b>> : b \in 0..255}
                  \cup HexEscapes
    /\ name = DefaultName
    /\ buffer \in CallerBuffers
    /\ device = << >>
    /\ escaped = NoEscaped
    /\ status = [op |-> "PdfName", err |-> NoError]

\* The state of the PdfName variables in a specification that leaves them alone.
NameIdle ==
    /\ input = << >>
    /\ name = DefaultName
    /\ buffer = << >>
    /\ device = << >>
    /\ escaped = NoEscaped
    /\ status = [op |-> "PdfName", err |-> NoError]

\* name = PdfName::FromRaw(input)
CallFromRaw ==
    /\ status.op = "PdfName"
    /\ name' = FromRaw(input)
    /\ status' = [op |-> "FromRaw", err |-> NoError]
    /\ UNCHANGED <<input, buffer, device, escaped>>

\* name = PdfName::FromEscaped(input)
CallFromEscaped ==
    /\ status.op = "PdfName"
    /\ name' = FromEscaped(input)
    /\ status' = [op |-> "FromEscaped", err |-> NoError]
    /\ UNCHANGED <<input, buffer, device, escaped>>

\* name = PdfName(literal, length), the read-only literal constructor
CallLiteral ==
    /\ status.op = "PdfName"
    /\ name' = NameFromLiteral(input)
    /\ status' = [op |-> "Literal", err |-> NoError]
    /\ UNCHANGED <<input, buffer, device, escaped>>

\* string PdfName::GetEscapedName() const
GetEscapedName ==
    /\ status.op \in {"FromRaw", "FromEscaped", "Literal", "PdfName"}
    /\ IF Len(name.m_dataView.bytes) = 0
       THEN /\ escaped' = [of |-> << >>, text |-> << >>, valid |-> TRUE]
            /\ status' = [op |-> "GetEscapedName", err |-> NoError]
       ELSE LET r == escapeNameTo(<< >>, name.m_dataView.bytes)
            IN /\ escaped' = IF r.err = NoError
                             THEN [of |-> name.m_dataView.bytes, text |-> r.dst,
                                   valid |-> TRUE]
                             ELSE NoEscaped
               /\ status' = [op |-> "GetEscapedName", err |-> r.err]
    /\ UNCHANGED <<input, name, buffer, device>>

\* void PdfName::Write(OutputStream& device, ..., charbuff& buffer) const
Write ==
    /\ status.op \in {"FromRaw", "FromEscaped", "Literal", "PdfName"}
    /\ IF Len(name.m_dataView.bytes) # 0
       THEN LET r == escapeNameTo(buffer, name.m_dataView.bytes)
            IN /\ buffer' = r.dst
               /\ device' = IF r.err = NoError
                            THEN (device \o <<47>>) \o r.dst
                            ELSE device \o <<47>>
               /\ status' = [op |-> "Write", err |-> r.err]
       ELSE /\ buffer' = buffer
            /\ device' = device \o <<47>>
            /\ status' = [op |-> "Write", err |-> NoError]
    /\ UNCHANGED <<input, name, escaped>>

InvariantFailed == "InvariantFailed"

\* name.IsNull()
CallIsNull ==
    /\ status.op \in {"FromRaw", "FromEscaped", "Literal", "PdfName"}
    /\ status' = [op |-> "IsNull",
                  err |-> IF IsNull(name).invariant THEN NoError ELSE InvariantFailed]
    /\ UNCHANGED <<input, name, buffer, device, escaped>>

\* name = PdfName::FromEscaped(text), text the result of GetEscapedName
Reparse ==
    /\ status.op = "GetEscapedName"
    /\ escaped.valid
    /\ name' = FromEscaped(escaped.text)
    /\ status' = [op |-> "Reparse", err |-> NoError]
    /\ UNCHANGED <<input, buffer, device, escaped>>


(***************************************************************************)
(* The specifications.  Spec: the calls on one resource table.  SpecName:  *)
(* the calls on one PdfName built from a chosen byte string.               *)
(***************************************************************************)
Init == TableInit /\ NameIdle /\ PairInit /\ RaceIdle

Next ==
    \/ \E type \in CallTypes, obj \in CallObjects :
         AddResource(type, obj) /\ UNCHANGED <<hist, nameVars, pairVars, raceVars>>
    \/ \E type \in CallTypes, obj \in CallObjects :
         \E key \in CallKeys(type) :
             AddResourceKey(type, key, obj) /\ UNCHANGED <<hist, nameVars, pairVars, raceVars>>
    \/ \E type \in CallTypes : \E key \in CallKeys(type) :
         RemoveResource(type, key) /\ UNCHANGED <<hist, nameVars, pairVars, raceVars>>
    \/ \E type \in CallTypes : RemoveResources(type) /\ UNCHANGED <<hist, nameVars, pairVars, raceVars>>
    \/ \E type \in CallTypes : \E key \in CallKeys(type) :
         GetResource(type, key) /\ UNCHANGED <<hist, nameVars, pairVars, raceVars>>

Spec == Init /\ [][Next]_vars

\* SpecHist: the calls on the Font category of one resource table, with the
\* history of removals.
HistTypes == {6}

InitHist == TableInit /\ NameIdle /\ PairInit /\ RaceIdle

NextHist ==
    \/ \E type \in HistTypes, obj \in CallObjects :
         /\ AddResource(type, obj)
         /\ hist' = HistAfterAdd(type)
         /\ UNCHANGED <<nameVars, pairVars, raceVars>>
    \/ \E type \in HistTypes, obj \in CallObjects : \E key \in CallKeys(type) :
         /\ AddResourceKey(type, key, obj)
         /\ hist' = HistAfterAddKey(type, key)
         /\ UNCHANGED <<nameVars, pairVars, raceVars>>
    \/ \E type \in HistTypes : \E key \in CallKeys(type) :
         /\ RemoveResource(type, key)
         /\ hist' = HistAfterRemove(type, key)
         /\ UNCHANGED <<nameVars, pairVars, raceVars>>
    \/ \E type \in HistTypes :
         /\ RemoveResources(type)
         /\ hist' = HistAfterRemoveAll(type)
         /\ UNCHANGED <<nameVars, pairVars, raceVars>>
    \/ \E type \in HistTypes : \E key \in CallKeys(type) :
         /\ GetResource(type, key)
         /\ hist' = HistAfterGet
         /\ UNCHANGED <<nameVars, pairVars, raceVars>>

SpecHist == InitHist /\ [][NextHist]_vars

\* SpecAdd: keyed insertions of two objects into two categories, and lookups,
\* with the record of what an insertion replaced.
AddTypes == {5, 6}

InitAdd == TableInit /\ NameIdle /\ PairInit /\ RaceIdle

NextAdd ==
    \/ \E type \in AddTypes, obj \in Objects : \E key \in CallKeys(type) :
         /\ AddResourceKey(type, key, obj)
         /\ hist' = HistAfterAddKey(type, key)
         /\ UNCHANGED <<nameVars, pairVars, raceVars>>
    \/ \E type \in AddTypes : \E key \in CallKeys(type) :
         /\ GetResource(type, key)
         /\ hist' = HistAfterGet
         /\ UNCHANGED <<nameVars, pairVars, raceVars>>

SpecAdd == InitAdd /\ [][NextAdd]_vars

InitName == NameInit /\ TableInit /\ PairInit /\ RaceIdle

NextName ==
    \/ CallFromRaw /\ UNCHANGED <<tableVars, pairVars, raceVars>>
    \/ CallFromEscaped /\ UNCHANGED <<tableVars, pairVars, raceVars>>
    \/ CallLiteral /\ UNCHANGED <<tableVars, pairVars, raceVars>>
    \/ GetEscapedName /\ UNCHANGED <<tableVars, pairVars, raceVars>>
    \/ Write /\ UNCHANGED <<tableVars, pairVars, raceVars>>
    \/ Reparse /\ UNCHANGED <<tableVars, pairVars, raceVars>>
    \/ CallIsNull /\ UNCHANGED <<tableVars, pairVars, raceVars>>

SpecName == InitName /\ [][NextName]_vars

InitPair == PairInit /\ TableInit /\ NameIdle /\ RaceIdle

NextPair ==
    \/ \E side \in Sides, bytes \in StringsOver(PairBytes, MaxPairLen) :
         BuildFromRaw(side, bytes) /\ UNCHANGED <<tableVars, nameVars, raceVars>>
    \/ \E side \in Sides, cps \in StringsOver(PairCodePoints, MaxPairLen) :
         BuildFromUtf8(side, Utf8Encode(cps)) /\ UNCHANGED <<tableVars, nameVars, raceVars>>
    \/ \E side \in Sides, bytes \in StringsOver(PairBytes, MaxPairLen) :
         BuildLiteral(side, bytes) /\ UNCHANGED <<tableVars, nameVars, raceVars>>
    \/ \E side \in Sides : CallGetString(side) /\ UNCHANGED <<tableVars, nameVars, raceVars>>

SpecPair == InitPair /\ [][NextPair]_vars

InitRace == RaceInit /\ TableInit /\ NameIdle /\ PairInit

NextRace ==
    \/ \E t \in Threads : ReadIsExpanded(t) /\ UNCHANGED <<tableVars, nameVars, pairVars>>
    \/ \E t \in Threads : Decode(t) /\ UNCHANGED <<tableVars, nameVars, pairVars>>
    \/ \E t \in Threads : NewString(t) /\ UNCHANGED <<tableVars, nameVars, pairVars>>
    \/ \E t \in Threads : StoreCache(t) /\ UNCHANGED <<tableVars, nameVars, pairVars>>
    \/ \E t \in Threads : DeleteOld(t) /\ UNCHANGED <<tableVars, nameVars, pairVars>>
    \/ \E t \in Threads : SetIsExpanded(t) /\ UNCHANGED <<tableVars, nameVars, pairVars>>
    \/ \E t \in Threads : ReturnView(t) /\ UNCHANGED <<tableVars, nameVars, pairVars>>
    \/ \E t \in Threads : ReadText(t) /\ UNCHANGED <<tableVars, nameVars, pairVars>>

SpecRace == InitRace /\ [][NextRace]_vars

(***************************************************************************)
(* Claims about the resource table (checked under Spec).                   *)
(***************************************************************************)
Allocated(call) == call.op = "AddResource" /\ call.err = NoError

\* The name the allocator builds for index k of a category.
GeneratedName(type, k) == getResourceTypePrefix(type) \o to_string(k)

\* C1: the name returned by a generated-name AddResource(type, obj) call is
\* not a key of the category's sub-dictionary immediately before the call and
\* is a key of it immediately after.
C1_AllocatedNameIsFresh ==
    [][Allocated(last') =>
         /\ last'.ret \notin KeysOf(m_dict, getResourceTypeName(last'.type))
         /\ last'.ret \in KeysOf(m_dict', getResourceTypeName(last'.type))]_vars

\* C1 witness: a generated-name call has returned a name while other keys,
\* one of them inserted under a caller-chosen generated-looking name, were held.
C1_Witness ==
    /\ Allocated(last)
    /\ last.type = 6
    /\ last.ret = "Ft2"
    /\ KeysOf(m_dict, "Font") = {"Ft1", "Ft2"}

\* C3: AddResource(type, obj) returns prefix + decimal(k), k the smallest
\* integer >= the counter at entry whose name is not a key, and leaves the
\* counter equal to k; with "Ft3" present and the Font counter at 3 it returns
\* "Ft4" or a later name, never "Ft3".
C3_SmallestFreeIndex ==
    [][Allocated(last') =>
         LET type == last'.type
             keys == KeysOf(m_dict, getResourceTypeName(type))
             c == m_currResourceIds[type]
             k == m_currResourceIds'[type]
         IN /\ k >= c
            /\ last'.ret = GeneratedName(type, k)
            /\ GeneratedName(type, k) \notin keys
            /\ \A j \in c..(k - 1) : GeneratedName(type, j) \in keys
            /\ (type = 6 /\ c = 3 /\ "Ft3" \in keys) =>
                   /\ last'.ret # "Ft3"
                   /\ k >= 4
                   /\ last'.ret = "Ft" \o to_string(k)]_vars

\* C3 witness: with "Ft3" present and the Font counter at 3 at entry, the call
\* returned "Ft4" and left the counter at 4.
C3_Witness ==
    /\ Allocated(last)
    /\ last.type = 6
    /\ last.from = 3
    /\ last.ret = "Ft4"
    /\ {"Ft3", "Ft4"} \subseteq KeysOf(m_dict, "Font")
    /\ m_currResourceIds[6] = 4

\* The candidates a generated-name call finds taken: the run of consecutive
\* indices from c whose names are keys.
CollidingCandidates(type, keys, c) ==
    {j \in c..(c + Cardinality(keys)) :
        \A i \in c..j : GeneratedName(type, i) \in keys}

\* C4: every counter starts at zero and never decreases; it changes only in a
\* generated-name AddResource call for its own category, by one for each
\* colliding candidate probed, and no other call changes it.
C4_CountersMonotone ==
    /\ \A t \in ValidTypes : m_currResourceIds[t] = 0
    /\ [][\A t \in ValidTypes :
             /\ m_currResourceIds'[t] >= m_currResourceIds[t]
             /\ m_currResourceIds'[t] # m_currResourceIds[t] =>
                    (Allocated(last') /\ last'.type = t)
             /\ (Allocated(last') /\ last'.type = t) =>
                    m_currResourceIds'[t] = m_currResourceIds[t] +
                        Cardinality(CollidingCandidates(t,
                            KeysOf(m_dict, getResourceTypeName(t)),
                            m_currResourceIds[t]))]_vars

\* C4 witness: a category whose counter had advanced was removed and its
\* counter is still where it was.
C4_Witness ==
    /\ last.op = "RemoveResources"
    /\ last.err = NoError
    /\ last.type = 6
    /\ ~HasKey(m_dict, "Font")
    /\ m_currResourceIds[6] = 3
    /\ m_currResourceIds[5] = 1

\* C10: on a category with no keys and a zero counter, n consecutive
\* generated-name calls with nothing in between return prefix0, prefix1, ...,
\* prefix(n-1) in that order ("XOb0" then "XOb1" for XObject).
C10_FreshRunCountsFromZero ==
    run.n > 0 =>
        /\ Allocated(last)
        /\ last.type = run.type
        /\ last.ret = GeneratedName(run.type, run.n - 1)
        /\ (run.type = 5 /\ run.n = 1) => last.ret = "XOb0"
        /\ (run.type = 5 /\ run.n = 2) => last.ret = "XOb1"
        /\ KeysOf(m_dict, getResourceTypeName(run.type)) =
              {GeneratedName(run.type, j) : j \in 0..(run.n - 1)}

\* C10 witness: the second of two consecutive calls on a fresh XObject
\* category has returned.
C10_Witness ==
    /\ run = [type |-> 5, n |-> 2]
    /\ last.ret = "XOb1"

TableOps == {"AddResource", "AddResourceKey", "RemoveResource", "RemoveResources",
             "GetResource"}

\* C11: a call of any of the five table operations with a category value
\* outside the seven-member enumeration raises InvalidEnumValue, returns
\* nothing, and leaves the owning dictionary (no sub-dictionary created or
\* modified) and every counter as they were.
C11_InvalidCategoryRejected ==
    [][(last'.op \in TableOps /\ last'.type \notin ValidTypes) =>
         /\ last'.err = InvalidEnumValue
         /\ last'.ret = ""
         /\ m_dict' = m_dict
         /\ m_currResourceIds' = m_currResourceIds
         /\ DOMAIN m_currResourceIds' = ValidTypes]_vars

\* C11 witness: a generated-name call with the value 0 has been rejected on a
\* table that holds keys and an advanced counter.
C11_Witness ==
    /\ last.op = "AddResource"
    /\ last.type = 0
    /\ last.err = InvalidEnumValue
    /\ KeysOf(m_dict, "Font") = {"Ft0", "Ft1"}
    /\ m_currResourceIds[6] = 1

\* C12: GetResource(type, key) on a table with no sub-dictionary for the
\* category, or whose sub-dictionary lacks the key, returns nothing, raises
\* nothing, creates no sub-dictionary and changes neither the owning
\* dictionary nor any counter.
C12_LookupMissLeavesTable ==
    [][(/\ last'.op = "GetResource"
        /\ last'.type \in ValidTypes
        /\ last'.key \notin KeysOf(m_dict, getResourceTypeName(last'.type))) =>
         /\ last'.err = NoError
         /\ last'.ret = NullObject
         /\ m_dict' = m_dict
         /\ HasKey(m_dict', getResourceTypeName(last'.type))
               = HasKey(m_dict, getResourceTypeName(last'.type))
         /\ m_currResourceIds' = m_currResourceIds]_vars

\* C12 witness: GetResource(Font, "F1") has returned nothing on a table that
\* has an XObject entry and no Font category, and there is still none.
C12_Witness ==
    /\ last = Call("GetResource", 6, "F1", NullObject, NoError)
    /\ ~HasKey(m_dict, "Font")
    /\ KeysOf(m_dict, "XObject") = {"XOb0"}

\* Every entry of the owning dictionary other than the one under tname is
\* the same in both dictionaries.
OthersKept(before, after, tname) ==
    /\ (DOMAIN before) \ {tname} = (DOMAIN after) \ {tname}
    /\ \A t \in (DOMAIN before) \ {tname} : after[t] = before[t]

AllKeys == UNION {CallKeys(t) : t \in ValidTypes}

\* C13: after AddResource(type, key, obj) the lookup of key in the category
\* gives obj, whether or not key was present (the last write wins, nothing
\* is raised); the key count of the sub-dictionary grows by one iff key was
\* absent, and every other key of every category resolves as before.
C13_AddNamedLastWriteWins ==
    [][\A type \in AddTypes, obj \in Objects : \A key \in CallKeys(type) :
         AddResourceKey(type, key, obj) =>
            LET tname == getResourceTypeName(type)
                keys == KeysOf(m_dict, tname)
            IN /\ last'.err = NoError
               /\ getResource(m_dict', tname, key) = obj
               /\ Cardinality(KeysOf(m_dict', tname)) =
                     Cardinality(keys) + (IF key \in keys THEN 0 ELSE 1)
               /\ \A t \in ValidTypes, k \in AllKeys :
                     (t # type \/ k # key) =>
                        getResource(m_dict', getResourceTypeName(t), k) =
                           getResource(m_dict, getResourceTypeName(t), k)]_vars

\* C13 witness: F1 of Font held obj1, AddResource(Font, "F1", obj2) has
\* replaced it, and XObject still holds its key.
C13_Witness ==
    /\ last = Call("AddResourceKey", 6, "F1", "", NoError)
    /\ hist.replaced = "obj1"
    /\ getResource(m_dict, "Font", "F1") = "obj2"
    /\ KeysOf(m_dict, "Font") = {"F1"}
    /\ getResource(m_dict, "XObject", "XOb0") = "obj1"

\* C17: a key freed by RemoveResource or RemoveResources is returned by a
\* later generated-name call only if its index is at or above the counter at
\* that call; after a run prefix0..prefixN on a fresh category, removing
\* prefix0 (N >= 1) and allocating returns prefix(N+1), removing prefixN and
\* allocating returns prefixN, and removing the category and allocating
\* re-creates the sub-dictionary and returns prefixN.
C17_ReuseOnlyFromCounter ==
    /\ [][(Allocated(last') /\ last'.type = hist.type /\ last'.ret \in hist.keys) =>
             \A j \in 0..(m_currResourceIds[last'.type] - 1) :
                 last'.ret # GeneratedName(last'.type, j)]_vars
    /\ [](hist.phase = "allocated" /\ hist.n > 0 =>
             LET type == hist.type
                 N == hist.n - 1
             IN /\ Allocated(last)
                /\ last.type = type
                /\ (hist.by = "RemoveResource" /\ N >= 1
                       /\ hist.keys = {GeneratedName(type, 0)}) =>
                      /\ last.ret = GeneratedName(type, N + 1)
                      /\ last.ret # GeneratedName(type, 0)
                /\ (hist.by = "RemoveResource"
                       /\ hist.keys = {GeneratedName(type, N)}) =>
                      last.ret = GeneratedName(type, N)
                /\ hist.by = "RemoveResources" =>
                      /\ last.ret = GeneratedName(type, N)
                      /\ N >= 1 => last.ret # GeneratedName(type, 0)
                      /\ KeysOf(m_dict, getResourceTypeName(type)) =
                            {GeneratedName(type, N)})

\* C17 witness: after the run Ft0, Ft1 on the fresh Font category, Ft0 was
\* removed and the next generated-name call returned Ft2.
C17_Witness ==
    /\ hist = [by |-> "RemoveResource", type |-> 6, keys |-> {"Ft0"}, n |-> 2,
               phase |-> "allocated", replaced |-> NullObject]
    /\ last.ret = "Ft2"
    /\ KeysOf(m_dict, "Font") = {"Ft1", "Ft2"}


(***************************************************************************)
(* Claims about PdfName's codec (checked under SpecName).                  *)
(***************************************************************************)
HasNullByte(bytes) == \E i \in 1..Len(bytes) : bytes[i] = 0

\* C2: for every byte string without a 0x00 byte, unescaping its escaped form
\* gives the string back: escaping succeeds, and the name re-read from the
\* escaped text has the raw bytes that were escaped.
C2_EscapeUnescapeRoundTrip ==
    /\ (status.op = "GetEscapedName" /\ ~HasNullByte(GetRawData(name))) =>
          /\ status.err = NoError
          /\ escaped.valid
          /\ escaped.of = GetRawData(name)
    /\ status.op = "Reparse" =>
          /\ ~HasNullByte(escaped.of)
          /\ GetRawData(name) = escaped.of

\* C2 witness: a string holding a byte >= 0x80, a '#', a delimiter and a
\* space has been escaped and read back.
C2_Witness ==
    /\ status.op = "Reparse"
    /\ escaped.of = <<233, 35, 47, 32>>
    /\ escaped.text = <<35, 69, 57, 35, 50, 51, 35, 50, 70, 35, 50, 48>>
    /\ GetRawData(name) = <<233, 35, 47, 32>>

\* C5: the raw bytes of every name, whichever constructor built it, hold no
\* 0x00 byte.
C5_NoNullByteInName == ~HasNullByte(GetRawData(name))

\* C8: escaping a byte string that holds a 0x00 byte anywhere raises
\* InvalidName and leaves the destination buffer as it was before the call.
C8_NullByteRejectedBufferKept ==
    [][/\ (status'.op = "Write" /\ HasNullByte(GetRawData(name))) =>
            /\ status'.err = InvalidName
            /\ buffer' = buffer
       /\ (status'.op = "GetEscapedName" /\ HasNullByte(GetRawData(name))) =>
            /\ status'.err = InvalidName
            /\ ~escaped'.valid]_vars

\* C8 witness: Write on a name with a 0x00 byte in the middle raised
\* InvalidName and the caller's buffer still holds its earlier content.
C8_Witness ==
    /\ status = [op |-> "Write", err |-> InvalidName]
    /\ GetRawData(name) = <<65, 0, 66>>
    /\ buffer = <<88, 89>>

\* What C9 says of unescaping, byte by byte: a '#' with at least two bytes
\* after it stands with them for one byte (written -1 here, any value), every
\* other byte for itself.
RECURSIVE LenientShape(_)
LenientShape(s) ==
    IF s = << >> THEN << >>
    ELSE IF Head(s) = 35 /\ Len(s) >= 3
         THEN <<-1>> \o LenientShape(SubSeq(s, 4, Len(s)))
         ELSE <<Head(s)>> \o LenientShape(Tail(s))

\* C9: unescaping never fails; a '#' with fewer than two bytes after it is
\* copied as it is, and so are the bytes after it ("AB#" and "AB#1" come out
\* unchanged); a '#' with at least two bytes after it consumes exactly those
\* two and one byte comes out.
C9_UnescapeLenient ==
    status.op = "FromEscaped" =>
        LET raw == GetRawData(name)
            shape == LenientShape(input)
        IN /\ status.err = NoError
           /\ Len(raw) = Len(shape)
           /\ \A i \in 1..Len(shape) :
                 IF shape[i] = -1 THEN raw[i] \in 0..255 ELSE raw[i] = shape[i]
           /\ input = <<65, 66, 35>> => raw = <<65, 66, 35>>
           /\ input = <<65, 66, 35, 49>> => raw = <<65, 66, 35, 49>>

\* C9 witness: "AB#1" has been unescaped to "AB#1".
C9_Witness ==
    /\ status.op = "FromEscaped"
    /\ input = <<65, 66, 35, 49>>
    /\ GetRawData(name) = <<65, 66, 35, 49>>

\* The bytes C15 speaks of: regular, printable, and not '#'.
SafeByte(ch) == IsRegular(ch) /\ IsPrintable(ch) /\ ch # 35

\* C15: a byte string made only of regular printable bytes other than '#' is
\* escaped to itself, byte for byte: GetEscapedName returns it and Write leaves
\* it in the buffer and sends it, after the '/', to the device.
C15_SafeBytesEscapeToThemselves ==
    LET raw == GetRawData(name)
    IN (\A i \in 1..Len(raw) : SafeByte(raw[i])) =>
          /\ status.op = "GetEscapedName" =>
                /\ status.err = NoError
                /\ escaped.valid
                /\ escaped.text = raw
          /\ (status.op = "Write" /\ Len(raw) # 0) =>
                /\ status.err = NoError
                /\ buffer = raw
                /\ device = <<47>> \o raw

\* C15 witness: "1AB" has been escaped to "1AB".
C15_Witness ==
    /\ status.op = "GetEscapedName"
    /\ GetRawData(name) = <<49, 65, 66>>
    /\ escaped.text = <<49, 65, 66>>

\* C16: when IsNull is called on a name built by any constructor, the
\* condition it asserts holds (the raw view has length zero exactly when its
\* data pointer is null) and it returns true iff the raw length is zero.
C16_IsNullInvariantHolds ==
    status.op = "IsNull" =>
        /\ status.err = NoError
        /\ (Len(name.m_dataView.bytes) = 0) = (name.m_dataView.data = "null")
        /\ IsNull(name).ret = (Len(GetRawData(name)) = 0)

\* The value of a hexadecimal digit character, upper or lower case.
HexVal(ch) ==
    IF ch \in 48..57 THEN ch - 48
    ELSE IF ch \in 65..70 THEN ch - 55
    ELSE ch - 87

\* C18: for hexadecimal digit characters h and l from 0-9, A-F, a-f,
\* unescaping '#' h l gives the one byte 16 * val(h) + val(l) (mod 256), so
\* lower-case and upper-case digits give the same byte: "#4a" and "#4A" give
\* 0x4A, "#e9" and "#E9" give 0xE9.
C18_HexDigitsEitherCase ==
    (status.op = "FromEscaped" /\ input \in HexEscapes) =>
        /\ GetRawData(name) = <<((16 * HexVal(input[2])) + HexVal(input[3])) % 256>>
        /\ input \in {<<35, 52, 97>>, <<35, 52, 65>>} => GetRawData(name) = <<74>>
        /\ input \in {<<35, 101, 57>>, <<35, 69, 57>>} => GetRawData(name) = <<233>>

\* C18 witness: "#e9" has been unescaped to the byte 0xE9.
C18_Witness ==
    /\ status.op = "FromEscaped"
    /\ input = <<35, 101, 57>>
    /\ GetRawData(name) = <<233>>

\* The length C19 gives for the escaped form: one for each byte copied,
\* three for each byte escaped.
EscapedLength(raw) ==
    Cardinality({i \in 1..Len(raw) : SafeByte(raw[i])})
       + (3 * Cardinality({i \in 1..Len(raw) : ~SafeByte(raw[i])}))

\* C19: for a null-free input of length n the escaped output has length m
\* with n <= m <= 3n, m is the length computed by the first pass (bytes
\* copied plus three times bytes escaped), and the second pass ends with
\* its iterator at the end of the resized buffer.
C19_EscapedLengthExact ==
    LET raw == GetRawData(name)
        n == Len(raw)
    IN ~HasNullByte(raw) =>
          /\ (status.op = "Write" /\ n # 0) =>
                /\ status.err = NoError
                /\ n <= Len(buffer) /\ Len(buffer) <= 3 * n
                /\ Len(buffer) = EscapedLength(raw)
                /\ Len(buffer) = CountOutChars(raw, 1, 0)
                /\ GenerateEncodedEnd(raw, 1, 1) = Len(buffer) + 1
          /\ status.op = "GetEscapedName" =>
                /\ status.err = NoError
                /\ n <= Len(escaped.text) /\ Len(escaped.text) <= 3 * n
                /\ Len(escaped.text) = EscapedLength(raw)
                /\ GenerateEncodedEnd(raw, 1, 1) = Len(escaped.text) + 1

\* C19 witness: Write on "A#" followed by the byte 0xE9 and a space has left
\* ten bytes in the buffer and sent them, after the '/', to the device.
C19_Witness ==
    /\ status = [op |-> "Write", err |-> NoError]
    /\ GetRawData(name) = <<65, 35, 233, 32>>
    /\ buffer = <<65, 35, 50, 51, 35, 69, 57, 35, 50, 48>>
    /\ device = <<47>> \o buffer

\* C20: when Write is called on a name whose raw bytes hold a 0x00 byte it
\* raises InvalidName and nothing, not even the leading '/', has been written
\* to the device.
C20_FailedWriteEmitsNothing ==
    [][(status'.op = "Write" /\ HasNullByte(GetRawData(name))) =>
          /\ status'.err = InvalidName
          /\ device' = device]_vars


(***************************************************************************)
(* Claims about comparison (SpecPair) and concurrent GetString (SpecRace). *)
(***************************************************************************)
\* What one GetString call alone leaves and returns for the shared name.
SequentialCall == GetString(FromRaw(shared.Chars))

\* C6: when two threads call GetString on the same owned, not yet expanded
\* name, then under every interleaving the final cache and flag are those of
\* one sequential call, and the text each caller obtained is, and stays after
\* both calls have completed, that of the sequential call.
C6_ConcurrentGetStringSafe ==
    (\A t \in Threads : pc[t] = "done") =>
        /\ shared.IsUtf8Expanded = SequentialCall.name.m_data.IsUtf8Expanded
        /\ (shared.Utf8String # 0) = SequentialCall.name.m_data.hasUtf8
        /\ shared.Utf8String # 0 =>
              /\ heap[shared.Utf8String].state = "alive"
              /\ heap[shared.Utf8String].content = SequentialCall.name.m_data.Utf8String
        /\ \A t \in Threads : observed[t].text = SequentialCall.text

\* C7: == , != and < between two names depend on the raw bytes only: a name
\* built by FromRaw(b) and one built from UTF-8 text whose PdfDocEncoding
\* bytes are b compare equal, and no GetString call on either name changes
\* the result of a comparison.
C7_ComparisonOnRawBytes ==
    /\ [](\A s \in Sides, t \in Sides :
            (/\ built[s].by = "FromRaw"
             /\ built[t].by = "FromUtf8"
             /\ built[t].err = NoError
             /\ ConvertUTF8ToPdfDocEncoding(built[t].arg) = built[s].arg) =>
                /\ NameEqual(pair[s], pair[t])
                /\ NameEqual(pair[t], pair[s])
                /\ ~NameNotEqual(pair[s], pair[t])
                /\ ~NameLess(pair[s], pair[t])
                /\ ~NameLess(pair[t], pair[s]))
    /\ [][(\A s \in Sides : built[s].by # "none" /\ built[s].err = NoError) =>
             \A s \in Sides, t \in Sides :
                /\ NameEqual(pair[s], pair[t])' = NameEqual(pair[s], pair[t])
                /\ NameNotEqual(pair[s], pair[t])' = NameNotEqual(pair[s], pair[t])
                /\ NameLess(pair[s], pair[t])' = NameLess(pair[s], pair[t])]_vars

\* C7 witness: FromRaw(0xE9), its cache still empty, and the name built from
\* the text U+00E9, its text already returned by GetString, compare equal.
C7_Witness ==
    /\ built["lhs"] = [by |-> "FromRaw", arg |-> <<233>>, err |-> NoError]
    /\ built["rhs"] = [by |-> "FromUtf8", arg |-> <<195, 169>>, err |-> NoError]
    /\ ~pair["lhs"].m_data.hasUtf8
    /\ pair["rhs"].m_data.hasUtf8
    /\ shown["rhs"] = [called |-> TRUE, text |-> <<195, 169>>]
    /\ NameEqual(pair["lhs"], pair["rhs"])

====
